---- MODULE Spec2Model ----
(***************************************************************************)
(* Model of streamlit_app.py: the synthetic EHR generator that fabricates  *)
(* patient records, reshapes them into the OMOP person table and samples   *)
(* a condition_occurrence table.                                           *)
(*                                                                         *)
(* The script is a single top-to-bottom pass that Streamlit re-executes    *)
(* whenever the slider changes.  Both random sources are re-seeded at the  *)
(* top of every pass.  The generators are modelled by a small congruential *)
(* generator; the stream it yields after seeding is a parameter drawn in   *)
(* Init, so every property is checked for a family of streams.             *)
(* Definitions introduced as "variant:" are deliberate slips of the        *)
(* definition that follows them, used to show that a property depends on   *)
(* that definition.                                                        *)
(* Dates are proleptic Gregorian ordinals as in datetime.date.toordinal(). *)
(***************************************************************************)
EXTENDS Integers, Sequences, FiniteSets, TLC

VARIABLES
    pc,                   \* position of the pass in the script
    run,                  \* number of the pass (Streamlit re-executes the script)
    today,                \* the date the pass runs on
    num_patients,         \* the slider value
    rndStream,            \* stream of the `random` module's generator
    fakeStream,           \* stream of Faker's generator
    rnd,                  \* state of the `random` module's generator
    fk,                   \* state of Faker's generator and its draw count
    data,                 \* list of dicts built by generate_fake_patients
    original_data,        \* the patients frame
    omop_person,          \* the OMOP person table
    conditions,           \* list of dicts built by generate_full_condition_occurrence
    condition_occurrence, \* the OMOP condition_occurrence table
    row,                  \* iterrows position in the person table
    num_conditions,       \* conditions sampled for the current person
    made,                 \* conditions appended for the current person
    prev,                 \* what the previous pass displayed
    mapIn,                \* source values handed to the lookups
    mapOut                \* what the lookups returned

vars == <<pc, run, today, num_patients, rndStream, fakeStream, rnd, fk, data,
          original_data, omop_person, conditions, condition_occurrence, row,
          num_conditions, made, prev, mapIn, mapOut>>

\* ------------------------------------------------------------------------
\* Bounds of the model
\* ------------------------------------------------------------------------
MaxPatients == 5

MaxRuns == 2

Modulus == 11

Mult == 2

MaxStream == 5

\* ------------------------------------------------------------------------
\* Program constants
\* ------------------------------------------------------------------------
Seed == 123

MinimumAge == 18

MaximumAge == 90

MinConditions == 1

MaxConditions == 3

StartYearsBack == 5

EndMonthsBack == 6

ConditionTypeConcept == 32020

None == "None"

\* how a call ends: it returns a value or raises
Returned(v) == [status |-> "returned", value |-> v]

Raised(e) == [status |-> "raised", error |-> e]

Pending == [status |-> "pending"]

\* ------------------------------------------------------------------------
\* Calendar: datetime.date as an ordinal, and its year / month / day
\* ------------------------------------------------------------------------
IsLeap(y) == (y % 4 = 0) /\ ((y % 100 # 0) \/ (y % 400 = 0))

DaysInMonth(y, m) ==
    IF m = 2 THEN (IF IsLeap(y) THEN 29 ELSE 28)
    ELSE IF m \in {4, 6, 9, 11} THEN 30 ELSE 31

DaysBeforeYear(y) ==
    (y - 1) * 365 + ((y - 1) \div 4) - ((y - 1) \div 100) + ((y - 1) \div 400)

CumulativeDays == <<0, 31, 59, 90, 120, 151, 181, 212, 243, 273, 304, 334>>

DaysBeforeMonth(y, m) == CumulativeDays[m] + (IF m > 2 /\ IsLeap(y) THEN 1 ELSE 0)

ToOrdinal(y, m, d) == DaysBeforeYear(y) + DaysBeforeMonth(y, m) + d

\* date.fromordinal(n) as year, month and day
Civil(n) ==
    LET est == ((n - 1) * 400) \div 146097 + 1
        y == CHOOSE c \in (est - 1)..(est + 1) :
                 DaysBeforeYear(c) < n /\ n <= DaysBeforeYear(c + 1)
        r == n - DaysBeforeYear(y)
        first == ((r - 1) \div 31) + 1
        m == IF first < 12 /\ r > DaysBeforeMonth(y, first + 1)
             THEN first + 1 ELSE first
    IN  [year |-> y, month |-> m, day |-> r - DaysBeforeMonth(y, m)]

YearOf(n) == Civil(n).year

MonthOf(n) == Civil(n).month

DayOf(n) == Civil(n).day

\* date.replace(year=...); the runs modelled never fall on 29 February
ReplaceYear(n, y) == LET c == Civil(n) IN ToOrdinal(y, c.month, c.day)

\* whole years elapsed between a birthdate and a later date
AgeAt(birth, now) ==
    LET b == Civil(birth)
        t == Civil(now)
    IN  t.year - b.year
          - (IF t.month < b.month \/ (t.month = b.month /\ t.day < b.day)
             THEN 1 ELSE 0)

\* The dates a pass may run on.  A pass on 29 February depends on the
\* installed Faker release and is left out.
TodayChoices == {ToOrdinal(2024, 3, 1), ToOrdinal(2025, 12, 31)}

\* pd.to_datetime(date): a timestamp at midnight of that date
ToDatetime(d) == [date |-> d, seconds |-> 0]

\* Series.dt.year / .dt.month / .dt.day
DtYear(ts) == YearOf(ts.date)

DtMonth(ts) == MonthOf(ts.date)

DtDay(ts) == DayOf(ts.date)

\* ------------------------------------------------------------------------
\* Random sources
\* ------------------------------------------------------------------------
\* one step of the generator on stream `inc`
Advance(s, inc) == (Mult * s + inc) % Modulus

\* random.seed(123) / Faker.seed(123): the state does not depend on the
\* state before the call
\* variant: the seeding call is missing
SeededSkipped(before) == before

SeedState(before) == Seed % Modulus

\* random.choice(seq) on generator output s
Choice(seq, s) == seq[(s % Len(seq)) + 1]

\* random.randint(a, b) on generator output s
RandInt(a, b, s) == a + (s % (b - a + 1))

\* a date drawn from lo..hi, both ends included, on generator output s
DateIn(lo, hi, s) ==
    IF hi <= lo THEN lo ELSE lo + ((s * (hi - lo)) \div (Modulus - 1))

\* ------------------------------------------------------------------------
\* Static tables
\* ------------------------------------------------------------------------
genders == <<"Male", "Female">>

races == <<"White", "Black", "Asian", "Other">>

ethnicities == <<"Not Hispanic or Latino", "Hispanic or Latino">>

gender_table == ("Male" :> 8507) @@ ("Female" :> 8532)

race_table ==
    ("White" :> 8527) @@ ("Black" :> 8516) @@ ("Asian" :> 8515) @@ ("Other" :> 8529)

ethnicity_table ==
    ("Not Hispanic or Latino" :> 38070399) @@ ("Hispanic or Latino" :> 38003563)

icd_to_omop ==
    ("E11.9" :> 201826) @@ ("I10" :> 320128) @@ ("J45.909" :> 317009)
      @@ ("F32.9" :> 440383)

icd_codes == <<"E11.9", "I10", "J45.909", "F32.9">>

\* dict.get(key, default)
DictGet(d, key, default) == IF key \in DOMAIN d THEN d[key] ELSE default

\* d[key]: raises KeyError for a key that is absent
DictSubscript(d, key) ==
    IF key \in DOMAIN d THEN Returned(d[key]) ELSE Raised("KeyError")

\* variant: the default of the lookup is a concept id
map_gender_default_female(gender) == DictGet(gender_table, gender, 8532)

map_gender(gender) == DictGet(gender_table, gender, 0)

map_race(race) == DictGet(race_table, race, 0)

map_ethnicity(ethnicity) == DictGet(ethnicity_table, ethnicity, 0)


\* ------------------------------------------------------------------------
\* Step 1: generate_fake_patients
\* ------------------------------------------------------------------------
\* fake.date_of_birth(minimum_age, maximum_age): the dates on which a person
\* of an age in minimum_age..maximum_age on `now` was born
\* variant: date_of_birth called without its age arguments (0 and 115)
BirthRangeAnyAge(now) ==
    [lo |-> ReplaceYear(now, YearOf(now) - 116) + 1, hi |-> now]

BirthRange(now) ==
    [lo |-> ReplaceYear(now, YearOf(now) - (MaximumAge + 1)) + 1,
     hi |-> ReplaceYear(now, YearOf(now) - MinimumAge)]

date_of_birth(now, s) == DateIn(BirthRange(now).lo, BirthRange(now).hi, s)

\* one iteration of the loop body; r1..r3 and f1..f6 are the generator
\* outputs the iteration consumes, in the order the code draws them
PatientRecord(now, r1, r2, r3, f1, f2, f3, f4, f5, f6, drawn) ==
    LET gender == Choice(genders, r1)
        race == Choice(races, r2)
        ethnicity == Choice(ethnicities, r3)
        birthdate == date_of_birth(now, f1)
    IN  [person_source_value |-> <<"uuid4", drawn + 2, f2>>,
         full_name |-> <<IF gender = "Male" THEN "name_male" ELSE "name_female", f3>>,
         gender |-> gender,
         birthdate |-> birthdate,
         address |-> <<"address", f4>>,
         phone |-> <<"phone_number", f5>>,
         email |-> <<"email", f6>>,
         race |-> race,
         ethnicity |-> ethnicity]

\* pd.DataFrame(data) with birthdate converted by pd.to_datetime
PatientsFrame(d) ==
    [k \in 1..Len(d) |-> [d[k] EXCEPT !.birthdate = ToDatetime(d[k].birthdate)]]

\* ------------------------------------------------------------------------
\* Step 3: convert_to_omop_person
\* ------------------------------------------------------------------------
\* variant: range(len(df))
PersonIdsFromZero(n) == [k \in 1..n |-> k - 1]

\* range(1, len(df) + 1)
PersonIds(n) == [k \in 1..n |-> k]

\* variant: race and ethnicity source values exchanged
PersonRowSourcesCrossed(id, rec) ==
    [person_id |-> id,
     gender_concept_id |-> map_gender(rec.gender),
     year_of_birth |-> DtYear(rec.birthdate),
     month_of_birth |-> DtMonth(rec.birthdate),
     day_of_birth |-> DtDay(rec.birthdate),
     birth_datetime |-> rec.birthdate,
     race_concept_id |-> map_race(rec.race),
     ethnicity_concept_id |-> map_ethnicity(rec.ethnicity),
     location_id |-> None,
     provider_id |-> None,
     care_site_id |-> None,
     person_source_value |-> rec.person_source_value,
     gender_source_value |-> rec.gender,
     gender_source_concept_id |-> 0,
     race_source_value |-> rec.ethnicity,
     race_source_concept_id |-> 0,
     ethnicity_source_value |-> rec.race,
     ethnicity_source_concept_id |-> 0]

PersonRow(id, rec) ==
    [person_id |-> id,
     gender_concept_id |-> map_gender(rec.gender),
     year_of_birth |-> DtYear(rec.birthdate),
     month_of_birth |-> DtMonth(rec.birthdate),
     day_of_birth |-> DtDay(rec.birthdate),
     birth_datetime |-> rec.birthdate,
     race_concept_id |-> map_race(rec.race),
     ethnicity_concept_id |-> map_ethnicity(rec.ethnicity),
     location_id |-> None,
     provider_id |-> None,
     care_site_id |-> None,
     person_source_value |-> rec.person_source_value,
     gender_source_value |-> rec.gender,
     gender_source_concept_id |-> 0,
     race_source_value |-> rec.race,
     race_source_concept_id |-> 0,
     ethnicity_source_value |-> rec.ethnicity,
     ethnicity_source_concept_id |-> 0]

convert_to_omop_person(df) ==
    [k \in 1..Len(df) |-> PersonRow(PersonIds(Len(df))[k], df[k])]

\* ------------------------------------------------------------------------
\* Step 4: generate_full_condition_occurrence
\* ------------------------------------------------------------------------
\* Faker's relative dates: a year counts 365.24 days, a month 30.42 days,
\* and the part of a day is dropped towards the past
ParseOffset(now, years, months) ==
    now - ((years * 36524 + months * 3042 + 99) \div 100)

\* variant: random.randint(0, 3)
NumConditionsFromZero(s) == RandInt(0, MaxConditions, s)

\* random.randint(1, 3)
NumConditions(s) == RandInt(MinConditions, MaxConditions, s)

\* fake.date_between(start_date='-5y', end_date='-6m')
StartDateRange(now) ==
    [lo |-> ParseOffset(now, StartYearsBack, 0),
     hi |-> ParseOffset(now, 0, EndMonthsBack)]

\* variant: the end date is drawn without regard to the start date
EndDateRangeUnanchored(start, now) ==
    [lo |-> ParseOffset(now, StartYearsBack, 0), hi |-> now]

\* fake.date_between(start_date=start_date, end_date='today')
EndDateRange(start, now) == [lo |-> start, hi |-> now]

\* variant: the id restarts with every person
NextConditionIdPerPerson(conds, done) == done + 1

\* len(conditions) + 1
NextConditionId(conds, done) == Len(conds) + 1

\* variant: the concept id is looked up for a fixed code
ConceptOfStale(icd) == Returned(icd_to_omop[icd_codes[1]])

\* icd_to_omop[icd]
ConceptOf(icd) == DictSubscript(icd_to_omop, icd)

ConditionRow(conds, done, person, now, r, f1, f2) ==
    LET icd == Choice(icd_codes, r)
        start_date == DateIn(StartDateRange(now).lo, StartDateRange(now).hi, f1)
        end_date == DateIn(EndDateRange(start_date, now).lo,
                           EndDateRange(start_date, now).hi, f2)
    IN  [condition_occurrence_id |-> NextConditionId(conds, done),
         person_id |-> person.person_id,
         condition_concept_id |-> ConceptOf(icd).value,
         condition_start_date |-> start_date,
         condition_start_datetime |-> ToDatetime(start_date),
         condition_end_date |-> end_date,
         condition_end_datetime |-> ToDatetime(end_date),
         condition_type_concept_id |-> ConditionTypeConcept,
         stop_reason |-> None,
         provider_id |-> None,
         visit_occurrence_id |-> None,
         visit_detail_id |-> None,
         condition_source_value |-> icd,
         condition_source_concept_id |-> 0,
         condition_status_concept_id |-> 0]


\* ------------------------------------------------------------------------
\* The pass through the script
\* ------------------------------------------------------------------------
NoRun ==
    [num_patients |-> 0, today |-> 0, original_data |-> <<>>,
     omop_person |-> <<>>, condition_occurrence |-> <<>>]

NoInput == [gender |-> "", race |-> "", ethnicity |-> "", icd |-> ""]

NoOutput ==
    [gender_concept_id |-> Pending, race_concept_id |-> Pending,
     ethnicity_concept_id |-> Pending, condition_concept_id |-> Pending]

\* the process starts; neither generator has been seeded yet
Init ==
    /\ pc = "seed"
    /\ run = 1
    /\ today \in TodayChoices
    /\ num_patients \in 1..MaxPatients
    /\ rndStream \in 0..MaxStream
    /\ fakeStream \in 0..MaxStream
    /\ rnd \in {0, Modulus - 1}
    /\ fk \in [s : {0, Modulus - 1}, n : {0}]
    /\ data = <<>>
    /\ original_data = <<>>
    /\ omop_person = <<>>
    /\ conditions = <<>>
    /\ condition_occurrence = <<>>
    /\ row = 0
    /\ num_conditions = 0
    /\ made = 0
    /\ prev = NoRun
    /\ mapIn = NoInput
    /\ mapOut = NoOutput

\* fake = Faker(); Faker.seed(123); random.seed(123)
SeedGenerators ==
    /\ pc = "seed"
    /\ rnd' = SeedState(rnd)
    /\ fk' = [s |-> SeedState(fk.s), n |-> 0]
    /\ pc' = "generate"
    /\ UNCHANGED <<run, today, num_patients, rndStream, fakeStream, data,
                   original_data, omop_person, conditions, condition_occurrence,
                   row, num_conditions, made, prev, mapIn, mapOut>>

\* one iteration of `for i in range(n)` in generate_fake_patients
GeneratePatient ==
    /\ pc = "generate"
    /\ Len(data) < num_patients
    /\ LET r1 == Advance(rnd, rndStream)
           r2 == Advance(r1, rndStream)
           r3 == Advance(r2, rndStream)
           f1 == Advance(fk.s, fakeStream)
           f2 == Advance(f1, fakeStream)
           f3 == Advance(f2, fakeStream)
           f4 == Advance(f3, fakeStream)
           f5 == Advance(f4, fakeStream)
           f6 == Advance(f5, fakeStream)
       IN  /\ data' = Append(data,
                  PatientRecord(today, r1, r2, r3, f1, f2, f3, f4, f5, f6, fk.n))
           /\ rnd' = r3
           /\ fk' = [s |-> f6, n |-> fk.n + 6]
    /\ UNCHANGED <<pc, run, today, num_patients, rndStream, fakeStream,
                   original_data, omop_person, conditions, condition_occurrence,
                   row, num_conditions, made, prev, mapIn, mapOut>>

\* the loop is over: the frame is built and returned
ReturnPatients ==
    /\ pc = "generate"
    /\ Len(data) = num_patients
    /\ original_data' = PatientsFrame(data)
    /\ pc' = "convert"
    /\ UNCHANGED <<run, today, num_patients, rndStream, fakeStream, rnd, fk, data,
                   omop_person, conditions, condition_occurrence, row,
                   num_conditions, made, prev, mapIn, mapOut>>

\* omop_person = convert_to_omop_person(original_data)
ConvertToOmopPerson ==
    /\ pc = "convert"
    /\ omop_person' = convert_to_omop_person(original_data)
    /\ pc' = "conditions"
    /\ UNCHANGED <<run, today, num_patients, rndStream, fakeStream, rnd, fk, data,
                   original_data, conditions, condition_occurrence, row,
                   num_conditions, made, prev, mapIn, mapOut>>

\* iterrows yields the next person and num_conditions is sampled for it
NextPerson ==
    /\ pc = "conditions"
    /\ made = num_conditions
    /\ row < Len(omop_person)
    /\ LET r == Advance(rnd, rndStream)
       IN  /\ num_conditions' = NumConditions(r)
           /\ rnd' = r
    /\ row' = row + 1
    /\ made' = 0
    /\ UNCHANGED <<pc, run, today, num_patients, rndStream, fakeStream, fk, data,
                   original_data, omop_person, conditions, condition_occurrence,
                   prev, mapIn, mapOut>>

\* one iteration of `for _ in range(num_conditions)`
AppendCondition ==
    /\ pc = "conditions"
    /\ made < num_conditions
    /\ LET r == Advance(rnd, rndStream)
           f1 == Advance(fk.s, fakeStream)
           f2 == Advance(f1, fakeStream)
       IN  /\ conditions' = Append(conditions,
                  ConditionRow(conditions, made, omop_person[row], today, r, f1, f2))
           /\ rnd' = r
           /\ fk' = [s |-> f2, n |-> fk.n + 2]
    /\ made' = made + 1
    /\ UNCHANGED <<pc, run, today, num_patients, rndStream, fakeStream, data,
                   original_data, omop_person, condition_occurrence, row,
                   num_conditions, prev, mapIn, mapOut>>

\* both loops are over: return pd.DataFrame(conditions)
ReturnConditions ==
    /\ pc = "conditions"
    /\ made = num_conditions
    /\ row = Len(omop_person)
    /\ condition_occurrence' = conditions
    /\ pc' = "done"
    /\ UNCHANGED <<run, today, num_patients, rndStream, fakeStream, rnd, fk, data,
                   original_data, omop_person, conditions, row, num_conditions,
                   made, prev, mapIn, mapOut>>

\* the slider is moved (or the page reloaded): Streamlit executes the script
\* again from its first line, on the same or a later date
Rerun ==
    /\ pc = "done"
    /\ run < MaxRuns
    /\ prev' = [num_patients |-> num_patients, today |-> today,
                original_data |-> original_data, omop_person |-> omop_person,
                condition_occurrence |-> condition_occurrence]
    /\ run' = run + 1
    /\ num_patients' \in 1..MaxPatients
    /\ today' \in {t \in TodayChoices : t >= today}
    /\ data' = <<>>
    /\ original_data' = <<>>
    /\ omop_person' = <<>>
    /\ conditions' = <<>>
    /\ condition_occurrence' = <<>>
    /\ row' = 0
    /\ num_conditions' = 0
    /\ made' = 0
    /\ pc' = "seed"
    /\ UNCHANGED <<rndStream, fakeStream, rnd, fk, mapIn, mapOut>>

Next ==
    \/ SeedGenerators
    \/ GeneratePatient
    \/ ReturnPatients
    \/ ConvertToOmopPerson
    \/ NextPerson
    \/ AppendCondition
    \/ ReturnConditions
    \/ Rerun

Spec == Init /\ [][Next]_vars


\* ------------------------------------------------------------------------
\* The lookups on their own, applied to arbitrary source values
\* ------------------------------------------------------------------------
GenderInputs == {"Male", "Female", "male", "M", ""}

RaceInputs == {"White", "Black", "Asian", "Other", "Martian", "white", ""}

EthnicityInputs == {"Not Hispanic or Latino", "Hispanic or Latino", "Unknown", ""}

IcdInputs == {"E11.9", "I10", "J45.909", "F32.9", "Z99.9", "e11.9", ""}

MapInit ==
    /\ pc = "lookup"
    /\ run = 1
    /\ today = ToOrdinal(2024, 3, 1)
    /\ num_patients = 1
    /\ rndStream = 0
    /\ fakeStream = 0
    /\ rnd = 0
    /\ fk = [s |-> 0, n |-> 0]
    /\ data = <<>>
    /\ original_data = <<>>
    /\ omop_person = <<>>
    /\ conditions = <<>>
    /\ condition_occurrence = <<>>
    /\ row = 0
    /\ num_conditions = 0
    /\ made = 0
    /\ prev = NoRun
    /\ mapIn \in [gender : GenderInputs, race : RaceInputs,
                  ethnicity : EthnicityInputs, icd : IcdInputs]
    /\ mapOut = NoOutput

Idle ==
    UNCHANGED <<pc, run, today, num_patients, rndStream, fakeStream, rnd, fk, data,
                original_data, omop_person, conditions, condition_occurrence, row,
                num_conditions, made, prev, mapIn>>

LookupGender ==
    /\ pc = "lookup"
    /\ mapOut.gender_concept_id = Pending
    /\ mapOut' = [mapOut EXCEPT !.gender_concept_id = Returned(map_gender(mapIn.gender))]
    /\ Idle

LookupRace ==
    /\ pc = "lookup"
    /\ mapOut.race_concept_id = Pending
    /\ mapOut' = [mapOut EXCEPT !.race_concept_id = Returned(map_race(mapIn.race))]
    /\ Idle

LookupEthnicity ==
    /\ pc = "lookup"
    /\ mapOut.ethnicity_concept_id = Pending
    /\ mapOut' = [mapOut EXCEPT !.ethnicity_concept_id = Returned(map_ethnicity(mapIn.ethnicity))]
    /\ Idle

LookupCondition ==
    /\ pc = "lookup"
    /\ mapOut.condition_concept_id = Pending
    /\ mapOut' = [mapOut EXCEPT !.condition_concept_id = ConceptOf(mapIn.icd)]
    /\ Idle

MapNext == LookupGender \/ LookupRace \/ LookupEthnicity \/ LookupCondition

SpecMap == MapInit /\ [][MapNext]_vars

\* ------------------------------------------------------------------------
\* Properties
\* ------------------------------------------------------------------------
Converted == pc \in {"conditions", "done"}

RowsOf(conds, id) == {k \in 1..Len(conds) : conds[k].person_id = id}

\* C1: the person table built from the N generated records has exactly N
\* rows, and row k carries person_id k (so the ids are unique and are 1..N)
PersonIdsSequential ==
    Converted =>
        /\ Len(original_data) = num_patients
        /\ Len(omop_person) = num_patients
        /\ \A k \in 1..Len(omop_person) : omop_person[k].person_id = k
        /\ \A k, l \in 1..Len(omop_person) :
               omop_person[k].person_id = omop_person[l].person_id => k = l

PersonIdsSequentialWitness ==
    /\ pc = "done"
    /\ num_patients = MaxPatients
    /\ Len(omop_person) = MaxPatients
    /\ omop_person[MaxPatients].person_id = MaxPatients

\* C2: each demographic lookup returns the concept id of the documented
\* table for a listed value and 0 (never an error) for any other value
DemographicLookups ==
    /\ mapOut.gender_concept_id # Pending =>
           /\ mapOut.gender_concept_id.status = "returned"
           /\ mapOut.gender_concept_id.value =
                  CASE mapIn.gender = "Male" -> 8507
                    [] mapIn.gender = "Female" -> 8532
                    [] OTHER -> 0
    /\ mapOut.race_concept_id # Pending =>
           /\ mapOut.race_concept_id.status = "returned"
           /\ mapOut.race_concept_id.value =
                  CASE mapIn.race = "White" -> 8527
                    [] mapIn.race = "Black" -> 8516
                    [] mapIn.race = "Asian" -> 8515
                    [] mapIn.race = "Other" -> 8529
                    [] OTHER -> 0
    /\ mapOut.ethnicity_concept_id # Pending =>
           /\ mapOut.ethnicity_concept_id.status = "returned"
           /\ mapOut.ethnicity_concept_id.value =
                  CASE mapIn.ethnicity = "Not Hispanic or Latino" -> 38070399
                    [] mapIn.ethnicity = "Hispanic or Latino" -> 38003563
                    [] OTHER -> 0

DemographicLookupsWitness ==
    /\ mapIn.gender = "M" /\ mapOut.gender_concept_id = Returned(0)
    /\ mapIn.race = "Martian" /\ mapOut.race_concept_id = Returned(0)
    /\ mapIn.ethnicity = "Hispanic or Latino"
    /\ mapOut.ethnicity_concept_id = Returned(38003563)

ConditionDatesOrdered ==
    /\ \A k \in 1..Len(conditions) :
           /\ conditions[k].condition_start_date <= conditions[k].condition_end_date
           /\ conditions[k].condition_end_date <= today
    /\ \A k \in 1..Len(condition_occurrence) :
           /\ condition_occurrence[k].condition_start_date
                  <= condition_occurrence[k].condition_end_date
           /\ condition_occurrence[k].condition_end_date <= today

ConditionDatesOrderedWitness ==
    /\ pc = "done"
    /\ \E k, l \in 1..Len(condition_occurrence) :
           /\ condition_occurrence[k].condition_start_date
                  < condition_occurrence[k].condition_end_date
           /\ condition_occurrence[k].condition_end_date < today
           /\ condition_occurrence[l].condition_end_date = today

\* C5: every condition row refers to a row of the person table, and every
\* person whose conditions have been generated has between 1 and 3 of them
ConditionsPerPerson ==
    /\ \A k \in 1..Len(conditions) :
           \E p \in 1..Len(omop_person) :
               omop_person[p].person_id = conditions[k].person_id
    /\ \A p \in 1..Len(omop_person) :
           (p < row \/ (p = row /\ made = num_conditions)) =>
               /\ Cardinality(RowsOf(conditions, omop_person[p].person_id)) >= 1
               /\ Cardinality(RowsOf(conditions, omop_person[p].person_id)) <= 3
    /\ pc = "done" =>
           /\ \A k \in 1..Len(condition_occurrence) :
                  \E p \in 1..Len(omop_person) :
                      omop_person[p].person_id = condition_occurrence[k].person_id
           /\ \A p \in 1..Len(omop_person) :
                  Cardinality(RowsOf(condition_occurrence, omop_person[p].person_id))
                      \in 1..3

ConditionsPerPersonWitness ==
    /\ pc = "done"
    /\ \E p, q \in 1..Len(omop_person) :
           /\ Cardinality(RowsOf(condition_occurrence, omop_person[p].person_id)) = 1
           /\ Cardinality(RowsOf(condition_occurrence, omop_person[q].person_id)) = 3

\* C6: the k-th row appended carries condition_occurrence_id k, counted
\* across all persons
ConditionIdsSequential ==
    /\ \A k \in 1..Len(conditions) : conditions[k].condition_occurrence_id = k
    /\ \A k \in 1..Len(condition_occurrence) :
           condition_occurrence[k].condition_occurrence_id = k

ConditionIdsSequentialWitness ==
    /\ pc = "done"
    /\ \E k \in 2..Len(condition_occurrence) :
           /\ condition_occurrence[k].person_id >= 2
           /\ condition_occurrence[k - 1].person_id
                  = condition_occurrence[k].person_id
           /\ condition_occurrence[k].condition_occurrence_id = k


\* what a pass displays
Output ==
    [original_data |-> original_data, omop_person |-> omop_person,
     condition_occurrence |-> condition_occurrence]

PrevOutput ==
    [original_data |-> prev.original_data, omop_person |-> prev.omop_person,
     condition_occurrence |-> prev.condition_occurrence]

\* the part of a person row that is sampled without reading the clock
PersonSample(r) ==
    <<r.person_id, r.person_source_value, r.gender_source_value,
      r.race_source_value, r.ethnicity_source_value, r.gender_concept_id,
      r.race_concept_id, r.ethnicity_concept_id>>

\* the part of a condition row that is sampled without reading the clock
ConditionSample(c) ==
    <<c.condition_occurrence_id, c.person_id, c.condition_source_value,
      c.condition_concept_id>>

SecondPassSameCount == pc = "done" /\ run > 1 /\ prev.num_patients = num_patients

\* C7 as stated: two complete passes with the same seed and the same patient
\* count display the same output
PassesReproducible == SecondPassSameCount => Output = PrevOutput

\* C7 amended: two complete passes with the same seed and patient count
\* display the same output when they run on the same date; on any dates they
\* agree on every field that is sampled without reading the clock, so the
\* gender / race / ethnicity triple of person_id 1 is the same
PassesReproducibleSameDate ==
    SecondPassSameCount =>
        /\ today = prev.today => Output = PrevOutput
        /\ Len(omop_person) = Len(prev.omop_person)
        /\ \A k \in 1..Len(omop_person) :
               PersonSample(omop_person[k]) = PersonSample(prev.omop_person[k])
        /\ Len(condition_occurrence) = Len(prev.condition_occurrence)
        /\ \A k \in 1..Len(condition_occurrence) :
               ConditionSample(condition_occurrence[k])
                   = ConditionSample(prev.condition_occurrence[k])
        /\ <<omop_person[1].gender_source_value, omop_person[1].race_source_value,
             omop_person[1].ethnicity_source_value>>
               = <<prev.omop_person[1].gender_source_value,
                   prev.omop_person[1].race_source_value,
                   prev.omop_person[1].ethnicity_source_value>>

PassesReproducibleSameDateWitness ==
    /\ SecondPassSameCount
    /\ num_patients = 5
    /\ today = prev.today
    /\ Output = PrevOutput
    /\ \E k \in 1..Len(omop_person) :
           omop_person[k].gender_source_value # omop_person[1].gender_source_value

\* C8: every generated birthdate is that of a person aged 18 to 90 on the
\* date of the pass
AgesInRange ==
    /\ \A k \in 1..Len(data) :
           /\ AgeAt(data[k].birthdate, today) >= 18
           /\ AgeAt(data[k].birthdate, today) <= 90
    /\ \A k \in 1..Len(original_data) :
           /\ AgeAt(original_data[k].birthdate.date, today) >= 18
           /\ AgeAt(original_data[k].birthdate.date, today) <= 90

AgesInRangeWitness ==
    /\ pc = "convert"
    /\ \E k, l \in 1..Len(original_data) :
           /\ AgeAt(original_data[k].birthdate.date, today) = 18
           /\ AgeAt(original_data[l].birthdate.date, today) = 90

\* C9: row i of the person table has 18 columns, passes record i's gender,
\* race, ethnicity and person_source_value through unchanged, carries the
\* table's concept id of each of them, and year / month / day_of_birth are
\* the components of record i's birthdate
PersonRowsDerived ==
    Converted =>
        /\ Len(omop_person) = Len(data)
        /\ \A i \in 1..Len(omop_person) :
               LET r == omop_person[i]
                   rec == data[i]
               IN  /\ Cardinality(DOMAIN r) = 18
                   /\ r.gender_source_value = rec.gender
                   /\ r.race_source_value = rec.race
                   /\ r.ethnicity_source_value = rec.ethnicity
                   /\ r.person_source_value = rec.person_source_value
                   /\ r.gender_concept_id = gender_table[rec.gender]
                   /\ r.race_concept_id = race_table[rec.race]
                   /\ r.ethnicity_concept_id = ethnicity_table[rec.ethnicity]
                   /\ r.month_of_birth \in 1..12
                   /\ r.day_of_birth \in 1..DaysInMonth(r.year_of_birth, r.month_of_birth)
                   /\ ToOrdinal(r.year_of_birth, r.month_of_birth, r.day_of_birth)
                          = rec.birthdate
                   /\ r.birth_datetime.date = rec.birthdate

PersonRowsDerivedWitness ==
    /\ pc = "done"
    /\ \E i, j \in 1..Len(omop_person) :
           /\ i < j
           /\ omop_person[i].gender_source_value # omop_person[j].gender_source_value
           /\ omop_person[i].race_source_value # omop_person[j].race_source_value
           /\ omop_person[i].ethnicity_source_value = "Hispanic or Latino"
           /\ omop_person[i].year_of_birth # omop_person[j].year_of_birth

\* C10: every condition row's source value is one of the four codes and its
\* concept id is that code's entry of the table, so it is never 0
ConditionConceptMatches ==
    \A k \in 1..Len(conditions) :
        LET c == conditions[k]
        IN  /\ c.condition_source_value \in {"E11.9", "I10", "J45.909", "F32.9"}
            /\ c.condition_concept_id =
                   CASE c.condition_source_value = "E11.9" -> 201826
                     [] c.condition_source_value = "I10" -> 320128
                     [] c.condition_source_value = "J45.909" -> 317009
                     [] c.condition_source_value = "F32.9" -> 440383
            /\ c.condition_concept_id # 0

ConditionConceptMatchesWitness ==
    /\ pc = "done"
    /\ condition_occurrence = conditions
    /\ {"E11.9", "I10", "J45.909", "F32.9"} \subseteq
           {conditions[k].condition_source_value : k \in 1..Len(conditions)}

====
